---- MODULE Spec2Model ----
(***************************************************************************)
(* Stopwatch with lap support (src/script.js).                             *)
(*                                                                         *)
(* The script keeps its state in closure variables (running, rafId,        *)
(* startTime, elapsedBeforeStart, laps) and in the DOM (timer text, button *)
(* label, the four disabled flags, the rendered lap list).  Every function *)
(* of the script is an operator from a state record to a state record, so  *)
(* that a function calling another (reset -> pause, lap -> renderLaps) is  *)
(* the composition of the operators.  Every entry point (button click, key *)
(* press, call through window.__stopwatch, animation frame) is an action.  *)
(* Time is in integer milliseconds.                                        *)
(***************************************************************************)
EXTENDS Integers, Sequences, FiniteSets, TLC

VARIABLES
  now,                    \* performance.now(), the wall clock
  running,                \* let running
  rafId,                  \* let rafId (0 models null)
  startTime,              \* let startTime
  elapsedBeforeStart,     \* let elapsedBeforeStart
  laps,                   \* let laps
  timerText,              \* timerEl.textContent
  startPauseBtn,          \* startPauseBtn: textContent and aria-pressed
  lapBtnDisabled,         \* lapBtn.disabled
  resetBtnDisabled,       \* resetBtn.disabled
  clearLapsBtnDisabled,   \* clearLapsBtn.disabled
  exportLapsBtnDisabled,  \* exportLapsBtn.disabled
  lapsList,               \* children of lapsList, first child first
  rafQueue,               \* animation-frame requests not yet run or cancelled
  download,               \* the file the latest step handed to the browser
  fmtArg,                 \* argument of a direct call of formatTime
  fmtRes,                 \* its result
  lastOp,                 \* history: the function the latest step ran
  runSum,                 \* history: ms the clock has run since the last reset
  started,                \* history: start() took effect since the last reset
  lapCalls,               \* history: lap() calls since the last reset
  deletedSinceReset,      \* history: a lap was removed since the last reset
  innerDeleted            \* history: a lap other than the newest was deleted
                          \*          since the ledger was last empty

domVars == <<timerText, startPauseBtn, lapBtnDisabled, resetBtnDisabled,
             clearLapsBtnDisabled, exportLapsBtnDisabled, lapsList>>
engineVars == <<running, rafId, startTime, elapsedBeforeStart, laps, rafQueue>>
fmtVars == <<fmtArg, fmtRes>>
histVars == <<runSum, started, lapCalls, deletedSinceReset, innerDeleted>>
vars == <<now, engineVars, domVars, download, fmtVars, lastOp, histVars>>

----------------------------------------------------------------------------
(* Bounds *)

TickMs == 5        \* one clock advance, in ms
MaxTime == 15      \* the clock stops advancing here
MaxLaps == 3       \* lap() is not called on a ledger this long
MaxFmtSmall == 130 \* formatTime is called on every ms in 0..MaxFmtSmall

----------------------------------------------------------------------------
(* JavaScript arithmetic on integers *)

\* a % b of JavaScript: the sign of the result is the sign of a
JsMod(a, b) == IF a >= 0 THEN a % b ELSE -((-a) % b)

\* Math.floor(a / b), b > 0
FloorDiv(a, b) == a \div b

\* Math.round on an integral number of ms
MathRound(x) == x

RECURSIVE SeqMin(_)
SeqMin(s) == IF Len(s) = 1 THEN Head(s)
             ELSE LET m == SeqMin(Tail(s)) IN IF Head(s) < m THEN Head(s) ELSE m

RECURSIVE SeqMax(_)
SeqMax(s) == IF Len(s) = 1 THEN Head(s)
             ELSE LET m == SeqMax(Tail(s)) IN IF Head(s) > m THEN Head(s) ELSE m

----------------------------------------------------------------------------
(* formatTime *)

\* String(n).padStart(2, '0')
pad(n) == LET s == ToString(n) IN IF Len(s) < 2 THEN "0" \o s ELSE s

formatTimeMutHoursMod(ms) ==
  LET totalCentis == FloorDiv(ms, 10)
      centis == JsMod(totalCentis, 100)
      totalSeconds == FloorDiv(totalCentis, 100)
      secs == JsMod(totalSeconds, 60)
      totalMinutes == FloorDiv(totalSeconds, 60)
      mins == JsMod(totalMinutes, 60)
      hours == JsMod(FloorDiv(totalMinutes, 60), 100)
  IN pad(hours) \o ":" \o pad(mins) \o ":" \o pad(secs) \o "." \o pad(centis)

formatTime(ms) ==
  LET totalCentis == FloorDiv(ms, 10)
      centis == JsMod(totalCentis, 100)
      totalSeconds == FloorDiv(totalCentis, 100)
      secs == JsMod(totalSeconds, 60)
      totalMinutes == FloorDiv(totalSeconds, 60)
      mins == JsMod(totalMinutes, 60)
      hours == FloorDiv(totalMinutes, 60)
  IN pad(hours) \o ":" \o pad(mins) \o ":" \o pad(secs) \o "." \o pad(centis)

----------------------------------------------------------------------------
(* The state record the script's functions work on *)

S == [running |-> running, rafId |-> rafId, startTime |-> startTime,
      elapsedBeforeStart |-> elapsedBeforeStart, laps |-> laps,
      timerText |-> timerText, startPauseBtn |-> startPauseBtn,
      lapBtnDisabled |-> lapBtnDisabled, resetBtnDisabled |-> resetBtnDisabled,
      clearLapsBtnDisabled |-> clearLapsBtnDisabled,
      exportLapsBtnDisabled |-> exportLapsBtnDisabled,
      lapsList |-> lapsList, rafQueue |-> rafQueue, download |-> download]

Apply(s) ==
  /\ running' = s.running
  /\ rafId' = s.rafId
  /\ startTime' = s.startTime
  /\ elapsedBeforeStart' = s.elapsedBeforeStart
  /\ laps' = s.laps
  /\ timerText' = s.timerText
  /\ startPauseBtn' = s.startPauseBtn
  /\ lapBtnDisabled' = s.lapBtnDisabled
  /\ resetBtnDisabled' = s.resetBtnDisabled
  /\ clearLapsBtnDisabled' = s.clearLapsBtnDisabled
  /\ exportLapsBtnDisabled' = s.exportLapsBtnDisabled
  /\ lapsList' = s.lapsList
  /\ rafQueue' = s.rafQueue
  /\ download' = s.download

NoDownload == [name |-> "", rows |-> << >>]

\* The state a handler starts from: nothing handed to the browser yet
Entry == [S EXCEPT !.download = NoDownload]

----------------------------------------------------------------------------
(* Animation frames *)

\* The handle requestAnimationFrame returns: a positive number that names no
\* pending request (the browser never hands out the handle of a live request)
requestAnimationFrame(s) ==
  CHOOSE h \in 1..(Cardinality(s.rafQueue) + 2) :
    h \notin s.rafQueue /\ h # s.rafId /\
    \A g \in 1..(h - 1) : g \in s.rafQueue \/ g = s.rafId

cancelAnimationFrame(q, id) == q \ {id}

----------------------------------------------------------------------------
(* Clock accumulator *)

getElapsedMsMutNoAccum(s, t) ==
  IF ~s.running THEN s.elapsedBeforeStart
  ELSE t - s.startTime

getElapsedMs(s, t) ==
  IF ~s.running THEN s.elapsedBeforeStart
  ELSE (t - s.startTime) + s.elapsedBeforeStart

updateMutCommits(s, t) ==
  LET ms == getElapsedMs(s, t)
      h == requestAnimationFrame(s)
  IN [s EXCEPT !.timerText = formatTime(ms),
               !.elapsedBeforeStart = ms,
               !.rafId = h,
               !.rafQueue = @ \cup {h}]

update(s, t) ==
  LET ms == getElapsedMs(s, t)
      h == requestAnimationFrame(s)
  IN [s EXCEPT !.timerText = formatTime(ms),
               !.rafId = h,
               !.rafQueue = @ \cup {h}]

startMutKeepStartTime(s, t) ==
  IF s.running THEN s
  ELSE LET h == requestAnimationFrame(s)
       IN [s EXCEPT !.running = TRUE,
                    !.startPauseBtn = [textContent |-> "Pause", ariaPressed |-> "true"],
                    !.lapBtnDisabled = FALSE,
                    !.resetBtnDisabled = FALSE,
                    !.clearLapsBtnDisabled = (Len(s.laps) = 0),
                    !.exportLapsBtnDisabled = (Len(s.laps) = 0),
                    !.rafId = h,
                    !.rafQueue = @ \cup {h}]

start(s, t) ==
  IF s.running THEN s
  ELSE LET h == requestAnimationFrame(s)
       IN [s EXCEPT !.startTime = t,
                    !.running = TRUE,
                    !.startPauseBtn = [textContent |-> "Pause", ariaPressed |-> "true"],
                    !.lapBtnDisabled = FALSE,
                    !.resetBtnDisabled = FALSE,
                    !.clearLapsBtnDisabled = (Len(s.laps) = 0),
                    !.exportLapsBtnDisabled = (Len(s.laps) = 0),
                    !.rafId = h,
                    !.rafQueue = @ \cup {h}]

pauseMutNoCancel(s, t) ==
  IF ~s.running THEN s
  ELSE [s EXCEPT !.elapsedBeforeStart = getElapsedMs(s, t),
                 !.running = FALSE,
                 !.startPauseBtn = [textContent |-> "Start", ariaPressed |-> "false"]]

pauseMutNoGuard(s, t) ==
  [s EXCEPT !.elapsedBeforeStart = (t - s.startTime) + s.elapsedBeforeStart,
            !.running = FALSE,
            !.startPauseBtn = [textContent |-> "Start", ariaPressed |-> "false"],
            !.rafId = 0,
            !.rafQueue = IF s.rafId # 0 THEN cancelAnimationFrame(@, s.rafId) ELSE @]

pause(s, t) ==
  IF ~s.running THEN s
  ELSE [s EXCEPT !.elapsedBeforeStart = getElapsedMs(s, t),
                 !.running = FALSE,
                 !.startPauseBtn = [textContent |-> "Start", ariaPressed |-> "false"],
                 !.rafId = IF s.rafId # 0 THEN 0 ELSE @,
                 !.rafQueue = IF s.rafId # 0 THEN cancelAnimationFrame(@, s.rafId) ELSE @]

startPauseToggle(s, t) == IF s.running THEN pause(s, t) ELSE start(s, t)

----------------------------------------------------------------------------
(* Lap ledger *)

\* new Date().toISOString(): the text of the capture instant
toISOString(t) == "T" \o ToString(t)

PlaceholderRow == [kind |-> "placeholder", idx |-> 0, time |-> "", diff |-> "",
                   badge |-> "", deleteIndex |-> 0]

Deltas(ls) == [i \in 1..Len(ls) |-> ls[i].deltaMs]

badgeOfMutNoLengthGuard(l, minDelta, maxDelta, n) ==
  IF l.deltaMs = minDelta THEN "Fastest"
  ELSE IF l.deltaMs = maxDelta THEN "Slowest"
  ELSE ""

\* let badge: the if / else if of the render loop
badgeOf(l, minDelta, maxDelta, n) ==
  IF l.deltaMs = minDelta /\ n > 1 THEN "Fastest"
  ELSE IF l.deltaMs = maxDelta /\ n > 1 THEN "Slowest"
  ELSE ""

\* One <li> of the list: index, time, difference, badge and the delete
\* button's data-delete-index
LapRow(l, minDelta, maxDelta, n) ==
  [kind |-> "lap", idx |-> l.idx, time |-> formatTime(l.timeMs),
   diff |-> formatTime(l.deltaMs), badge |-> badgeOf(l, minDelta, maxDelta, n),
   deleteIndex |-> l.idx]

renderLaps(s) ==
  IF Len(s.laps) = 0 THEN [s EXCEPT !.lapsList = <<PlaceholderRow>>]
  ELSE LET n == Len(s.laps)
           minDelta == SeqMin(Deltas(s.laps))
           maxDelta == SeqMax(Deltas(s.laps))
       IN [s EXCEPT !.lapsList =
             [j \in 1..n |-> LapRow(s.laps[n - j + 1], minDelta, maxDelta, n)]]

resetMutKeepLaps(s, t) ==
  LET s1 == pause(s, t)
      s2 == renderLaps([s1 EXCEPT !.elapsedBeforeStart = 0,
                                  !.timerText = formatTime(0)])
  IN [s2 EXCEPT !.lapBtnDisabled = TRUE,
                !.resetBtnDisabled = TRUE,
                !.clearLapsBtnDisabled = TRUE,
                !.exportLapsBtnDisabled = TRUE]

resetMutNoPause(s, t) ==
  LET s2 == renderLaps([s EXCEPT !.elapsedBeforeStart = 0,
                                 !.timerText = formatTime(0),
                                 !.laps = << >>])
  IN [s2 EXCEPT !.lapBtnDisabled = TRUE,
                !.resetBtnDisabled = TRUE,
                !.clearLapsBtnDisabled = TRUE,
                !.exportLapsBtnDisabled = TRUE]

reset(s, t) ==
  LET s1 == pause(s, t)
      s2 == renderLaps([s1 EXCEPT !.elapsedBeforeStart = 0,
                                  !.timerText = formatTime(0),
                                  !.laps = << >>])
  IN [s2 EXCEPT !.lapBtnDisabled = TRUE,
                !.resetBtnDisabled = TRUE,
                !.clearLapsBtnDisabled = TRUE,
                !.exportLapsBtnDisabled = TRUE]

lapMutNoRender(s, t) ==
  LET current == getElapsedMs(s, t)
      previousTime == IF Len(s.laps) # 0 THEN s.laps[Len(s.laps)].timeMs ELSE 0
      delta == current - previousTime
      entry == [timeMs |-> current, deltaMs |-> delta,
                idx |-> Len(s.laps) + 1, iso |-> toISOString(t)]
  IN [s EXCEPT !.laps = Append(@, entry),
               !.clearLapsBtnDisabled = FALSE,
               !.exportLapsBtnDisabled = FALSE]

lapMutDeltaFromZero(s, t) ==
  LET current == getElapsedMs(s, t)
      entry == [timeMs |-> current, deltaMs |-> current,
                idx |-> Len(s.laps) + 1, iso |-> toISOString(t)]
      s1 == renderLaps([s EXCEPT !.laps = Append(@, entry)])
  IN [s1 EXCEPT !.clearLapsBtnDisabled = FALSE,
                !.exportLapsBtnDisabled = FALSE]

lap(s, t) ==
  LET current == getElapsedMs(s, t)
      previousTime == IF Len(s.laps) # 0 THEN s.laps[Len(s.laps)].timeMs ELSE 0
      delta == current - previousTime
      entry == [timeMs |-> current, deltaMs |-> delta,
                idx |-> Len(s.laps) + 1, iso |-> toISOString(t)]
      s1 == renderLaps([s EXCEPT !.laps = Append(@, entry)])
  IN [s1 EXCEPT !.clearLapsBtnDisabled = FALSE,
                !.exportLapsBtnDisabled = FALSE]

deleteLapMutNoDisable(s, idx) ==
  LET kept == SelectSeq(s.laps, LAMBDA l : l.idx # idx)
      reindexed == [i \in 1..Len(kept) |-> [kept[i] EXCEPT !.idx = i]]
  IN renderLaps([s EXCEPT !.laps = reindexed])

deleteLapMutSplice(s, idx) ==
  LET all == [i \in 1..Len(s.laps) |-> i]
      pos == SelectSeq(all, LAMBDA i : i # idx + 1)
      reindexed == [i \in 1..Len(pos) |-> [s.laps[pos[i]] EXCEPT !.idx = i]]
      s1 == renderLaps([s EXCEPT !.laps = reindexed])
  IN IF Len(s1.laps) = 0
     THEN [s1 EXCEPT !.clearLapsBtnDisabled = TRUE,
                     !.exportLapsBtnDisabled = TRUE]
     ELSE s1

deleteLapMutNoReindex(s, idx) ==
  LET kept == SelectSeq(s.laps, LAMBDA l : l.idx # idx)
      s1 == renderLaps([s EXCEPT !.laps = kept])
  IN IF Len(s1.laps) = 0
     THEN [s1 EXCEPT !.clearLapsBtnDisabled = TRUE,
                     !.exportLapsBtnDisabled = TRUE]
     ELSE s1

\* The click listener of a delete button whose data-delete-index is idx
deleteLap(s, idx) ==
  LET kept == SelectSeq(s.laps, LAMBDA l : l.idx # idx)
      reindexed == [i \in 1..Len(kept) |-> [kept[i] EXCEPT !.idx = i]]
      s1 == renderLaps([s EXCEPT !.laps = reindexed])
  IN IF Len(s1.laps) = 0
     THEN [s1 EXCEPT !.clearLapsBtnDisabled = TRUE,
                     !.exportLapsBtnDisabled = TRUE]
     ELSE s1

clearLaps(s) ==
  LET s1 == renderLaps([s EXCEPT !.laps = << >>])
  IN [s1 EXCEPT !.clearLapsBtnDisabled = TRUE,
                !.exportLapsBtnDisabled = TRUE]

----------------------------------------------------------------------------
(* Export *)

\* `"${String(v).replace(/"/g,'""')}"` on a text without a quote character
\* (numbers, formatted times and timestamps hold none)
csvField(v) == "\"" \o v \o "\""

csvHeaders == <<"LapIndex", "Time (ms)", "Time (HH:MM:SS.CS)", "Delta (ms)",
                "Delta (HH:MM:SS.CS)", "ISO">>

csvRow(l) == <<ToString(l.idx), ToString(MathRound(l.timeMs)), formatTime(l.timeMs),
               ToString(MathRound(l.deltaMs)), formatTime(l.deltaMs), l.iso>>

exportLapsMutNoGuard(s, t) ==
  LET rows == [i \in 1..Len(s.laps) |-> csvRow(s.laps[i])]
      csv == [i \in 1..(Len(rows) + 1) |->
                LET r == IF i = 1 THEN csvHeaders ELSE rows[i - 1]
                IN [k \in 1..Len(r) |-> csvField(r[k])]]
  IN [s EXCEPT !.download =
        [name |-> "stopwatch_laps_" \o toISOString(t) \o ".csv", rows |-> csv]]

\* The csv text, as its lines, each line as its quoted fields
exportLaps(s, t) ==
  IF Len(s.laps) = 0 THEN s
  ELSE LET rows == [i \in 1..Len(s.laps) |-> csvRow(s.laps[i])]
           csv == [i \in 1..(Len(rows) + 1) |->
                     LET r == IF i = 1 THEN csvHeaders ELSE rows[i - 1]
                     IN [k \in 1..Len(r) |-> csvField(r[k])]]
       IN [s EXCEPT !.download =
             [name |-> "stopwatch_laps_" \o toISOString(t) \o ".csv", rows |-> csv]]

----------------------------------------------------------------------------
(* Keyboard *)

Keys == {"Space", "l", "r", "x"}

handleKeyMutNoGuard(s, t, key) ==
  IF key = "Space" THEN startPauseToggle(s, t)
  ELSE IF key = "l" THEN lap(s, t)
  ELSE IF key = "r" THEN reset(s, t)
  ELSE s

handleKey(s, t, key) ==
  IF key = "Space" THEN startPauseToggle(s, t)
  ELSE IF key = "l" THEN (IF ~s.lapBtnDisabled THEN lap(s, t) ELSE s)
  ELSE IF key = "r" THEN reset(s, t)
  ELSE s

----------------------------------------------------------------------------
(* Initial state: the script has run to its end (reset(); renderLaps();) *)

\* The closure variables as declared, and the page before the script touches
\* it; reset() overwrites every DOM field but the start/pause label
Declared ==
  [running |-> FALSE, rafId |-> 0, startTime |-> 0, elapsedBeforeStart |-> 0,
   laps |-> << >>, timerText |-> "",
   startPauseBtn |-> [textContent |-> "Start", ariaPressed |-> "false"],
   lapBtnDisabled |-> FALSE, resetBtnDisabled |-> FALSE,
   clearLapsBtnDisabled |-> FALSE, exportLapsBtnDisabled |-> FALSE,
   lapsList |-> << >>, rafQueue |-> {}, download |-> NoDownload]

Loaded == renderLaps(reset(Declared, 0))

Op(name, arg) == [op |-> name, arg |-> arg]

InitEngine ==
  /\ now = 0
  /\ running = Loaded.running
  /\ rafId = Loaded.rafId
  /\ startTime = Loaded.startTime
  /\ elapsedBeforeStart = Loaded.elapsedBeforeStart
  /\ laps = Loaded.laps
  /\ timerText = Loaded.timerText
  /\ startPauseBtn = Loaded.startPauseBtn
  /\ lapBtnDisabled = Loaded.lapBtnDisabled
  /\ resetBtnDisabled = Loaded.resetBtnDisabled
  /\ clearLapsBtnDisabled = Loaded.clearLapsBtnDisabled
  /\ exportLapsBtnDisabled = Loaded.exportLapsBtnDisabled
  /\ lapsList = Loaded.lapsList
  /\ rafQueue = Loaded.rafQueue
  /\ download = Loaded.download
  /\ lastOp = Op("init", 0)
  /\ runSum = 0
  /\ started = FALSE
  /\ lapCalls = 0
  /\ deletedSinceReset = FALSE
  /\ innerDeleted = FALSE

Init == InitEngine /\ fmtArg = 0 /\ fmtRes = ""

----------------------------------------------------------------------------
(* History bookkeeping shared by the handlers *)

\* A step that runs the script: s is the state its code leaves
Run(s, name, arg) ==
  /\ Apply(s)
  /\ lastOp' = Op(name, arg)
  /\ UNCHANGED <<now, fmtVars>>

CallsStart(name) == name = "start"
CallsReset(name) == name = "reset"
CallsLap(name) == name = "lap"

CallsDelete(name) == name = "deleteLap"

History(s, name, arg) ==
  /\ runSum' = IF CallsReset(name) THEN 0 ELSE runSum
  /\ started' = IF CallsReset(name) THEN FALSE
                ELSE IF CallsStart(name) /\ ~running THEN TRUE
                ELSE started
  /\ deletedSinceReset' = IF CallsReset(name) THEN FALSE
                          ELSE deletedSinceReset \/ Len(s.laps) < Len(laps)
  /\ lapCalls' = IF CallsReset(name) \/ deletedSinceReset' THEN 0
                 ELSE IF CallsLap(name) THEN lapCalls + 1
                 ELSE lapCalls
  /\ innerDeleted' = IF Len(s.laps) = 0 THEN FALSE
                     ELSE innerDeleted \/ (/\ CallsDelete(name)
                                           /\ Len(s.laps) < Len(laps)
                                           /\ arg < Len(laps))

Handler(s, name, arg) == Run(s, name, arg) /\ History(s, name, arg)

----------------------------------------------------------------------------
(* Environment *)

\* The wall clock advances
Tick ==
  /\ now + TickMs <= MaxTime
  /\ now' = now + TickMs
  /\ runSum' = IF running THEN runSum + TickMs ELSE runSum
  /\ lastOp' = Op("tick", 0)
  /\ download' = NoDownload
  /\ UNCHANGED <<engineVars, domVars, fmtVars, started, lapCalls, deletedSinceReset,
               innerDeleted>>

\* The browser runs a pending animation-frame request
Frame ==
  \E h \in rafQueue :
    Handler(update([Entry EXCEPT !.rafQueue = @ \ {h}], now), "update", h)

----------------------------------------------------------------------------
(* Pointer *)

ToggleName == IF running THEN "pause" ELSE "start"

ClickStartPause == Handler(startPauseToggle(Entry, now), ToggleName, 0)

ClickLap ==
  /\ ~lapBtnDisabled
  /\ Len(laps) < MaxLaps
  /\ Handler(lap(Entry, now), "lap", 0)

ClickReset ==
  /\ ~resetBtnDisabled
  /\ Handler(reset(Entry, now), "reset", 0)

ClickClearLaps ==
  /\ ~clearLapsBtnDisabled
  /\ Handler(clearLaps(Entry), "clearLaps", 0)

ClickExportLaps ==
  /\ ~exportLapsBtnDisabled
  /\ Handler(exportLaps(Entry, now), "exportLaps", 0)

\* A click event a script dispatches on the button reaches the listener
\* whether or not the button is disabled
DispatchClearLaps == Handler(clearLaps(Entry), "clearLaps", 0)

DispatchExportLaps == Handler(exportLaps(Entry, now), "exportLaps", 0)

\* Delete buttons the page has ever shown carry an index in 1..MaxLaps; a
\* listener registered by an earlier render stays callable after the list
\* is rendered again
DeleteIndices == 1..MaxLaps

ClickDelete ==
  \E idx \in DeleteIndices : Handler(deleteLap(Entry, idx), "deleteLap", idx)

----------------------------------------------------------------------------
(* Keyboard *)

KeyName(key) ==
  IF key = "Space" THEN ToggleName
  ELSE IF key = "l" /\ ~lapBtnDisabled THEN "lap"
  ELSE IF key = "r" THEN "reset"
  ELSE "handleKey"

\* e.keyCode of the keys of Keys
KeyCode(key) ==
  IF key = "Space" THEN 32
  ELSE IF key = "l" THEN 76
  ELSE IF key = "r" THEN 82
  ELSE 88

KeyDown ==
  \E key \in Keys :
    /\ KeyName(key) = "lap" => Len(laps) < MaxLaps
    /\ Handler(handleKey(Entry, now, key), KeyName(key), KeyCode(key))

----------------------------------------------------------------------------
(* window.__stopwatch *)

ApiStart == Handler(start(Entry, now), "start", 0)

ApiPause == Handler(pause(Entry, now), "pause", 0)

ApiReset == Handler(reset(Entry, now), "reset", 0)

ApiLap ==
  /\ Len(laps) < MaxLaps
  /\ Handler(lap(Entry, now), "lap", 0)

----------------------------------------------------------------------------
(* Specification of the stopwatch *)

Next ==
  \/ Tick
  \/ Frame
  \/ ClickStartPause
  \/ ClickLap
  \/ ClickReset
  \/ ClickClearLaps
  \/ ClickExportLaps
  \/ DispatchClearLaps
  \/ DispatchExportLaps
  \/ ClickDelete
  \/ KeyDown
  \/ ApiStart
  \/ ApiPause
  \/ ApiReset
  \/ ApiLap

Spec == Init /\ [][Next]_vars

----------------------------------------------------------------------------
(* Specification of direct calls of formatTime *)

FmtInputs ==
  (0..MaxFmtSmall) \cup
  {990, 999, 1000, 1009, 59990, 59999, 60000, 61234, 3599999, 3600000,
   3661010, 35999999, 36000000, 359999999, 360000000, 360000009, 363661230}

InitFmt == InitEngine /\ fmtArg \in FmtInputs /\ fmtRes = ""

ApiFormatTime ==
  /\ fmtRes = ""
  /\ fmtRes' = formatTime(fmtArg)
  /\ lastOp' = Op("formatTime", 0)
  /\ UNCHANGED <<now, engineVars, domVars, download, fmtArg, histVars>>

NextFmt == ApiFormatTime

SpecFmt == InitFmt /\ [][NextFmt]_vars

----------------------------------------------------------------------------
(* Properties *)

RECURSIVE SumDeltas(_)
SumDeltas(ls) == IF Len(ls) = 0 THEN 0 ELSE Head(ls).deltaMs + SumDeltas(Tail(ls))

\* The list shows record i of the ledger with the badge tag
Tagged(i, tag) ==
  \E j \in DOMAIN lapsList :
    /\ lapsList[j].kind = "lap"
    /\ lapsList[j].idx = laps[i].idx
    /\ lapsList[j].badge = tag

\* C1: directly after a pause() the elapsed time read by getElapsedMs() is the
\* total time the clock has been running since the last reset, whatever the
\* number of start/pause cycles.
C1_ElapsedAfterPauseIsRunSum ==
  lastOp.op = "pause" => getElapsedMs(S, now) = runSum

\* A pause that ends a second running interval: the interval that began at
\* startTime is shorter than the committed total.
C1_Witness ==
  /\ lastOp.op = "pause"
  /\ ~running
  /\ now > startTime
  /\ elapsedBeforeStart > now - startTime

\* C2: reset() leaves the clock stopped at 0 with an empty ledger, and the
\* elapsed time stays 0 while the clock advances, until start() takes effect.
C2_ResetZeroes ==
  /\ lastOp.op = "reset" =>
       /\ ~running
       /\ getElapsedMs(S, now) = 0
       /\ laps = << >>
  /\ ~started =>
       /\ ~running
       /\ getElapsedMs(S, now) = 0

\* The clock advanced after a reset that followed a start made at startTime.
C2_Witness ==
  /\ ~started
  /\ startTime > 0
  /\ lastOp.op = "tick"
  /\ now > startTime + TickMs

\* C3: while no lap has been removed since the last reset, N calls of lap()
\* leave N records with idx 1..N in order, whose deltaMs add up to the timeMs
\* of the last one.
C3_LapsWithoutDeletion ==
  ~deletedSinceReset =>
    /\ Len(laps) = lapCalls
    /\ \A i \in 1..Len(laps) : laps[i].idx = i
    /\ Len(laps) > 0 => SumDeltas(laps) = laps[Len(laps)].timeMs

\* Three laps at three different elapsed times, none removed, clock paused.
C3_Witness ==
  /\ ~deletedSinceReset
  /\ lapCalls >= 3
  /\ Len(laps) >= 3
  /\ ~running
  /\ 0 < laps[1].timeMs
  /\ laps[1].timeMs < laps[2].timeMs
  /\ laps[2].timeMs < laps[3].timeMs

\* C4: a delete for index k that a record carries leaves the other records in
\* their order, times and deltas untouched, renumbered 1..N-1; a delete for an
\* index no record carries leaves the ledger as it was.
C4_DeleteReindexes ==
  [][lastOp'.op = "deleteLap" =>
       LET k == lastOp'.arg
       IN IF \E i \in 1..Len(laps) : laps[i].idx = k
          THEN /\ Len(laps') = Len(laps) - 1
               /\ \A i \in 1..Len(laps') :
                    LET old == laps[IF i < k THEN i ELSE i + 1]
                    IN /\ laps'[i].timeMs = old.timeMs
                       /\ laps'[i].deltaMs = old.deltaMs
                       /\ laps'[i].iso = old.iso
                       /\ laps'[i].idx = i
          ELSE laps' = laps]_vars

\* Lap 2 of three was deleted: the record now numbered 2 keeps a delta that
\* is not the distance to the record now before it.
C4_Witness ==
  /\ lastOp = Op("deleteLap", 2)
  /\ Len(laps) = 2
  /\ laps[2].idx = 2
  /\ laps[2].deltaMs # laps[2].timeMs - laps[1].timeMs

\* C5: in every reachable state the record at position i of the ledger has
\* idx = i.
C5_IndicesContiguous ==
  \A i \in 1..Len(laps) : laps[i].idx = i

\* A lap recorded after a deletion, on a ledger of three.
C5_Witness ==
  /\ lastOp.op = "lap"
  /\ deletedSinceReset
  /\ Len(laps) = 3
  /\ laps[3].idx = 3

\* C6: with two or more records, every record whose deltaMs is the maximum is
\* tagged slowest and every record whose deltaMs is the minimum is tagged
\* fastest (so a record that is both carries both tags).
C6_MinAndMaxBothTagged ==
  Len(laps) >= 2 =>
    \A i \in 1..Len(laps) :
      /\ (\A k \in 1..Len(laps) : laps[i].deltaMs >= laps[k].deltaMs)
           => Tagged(i, "Slowest")
      /\ (\A k \in 1..Len(laps) : laps[i].deltaMs <= laps[k].deltaMs)
           => Tagged(i, "Fastest")

\* C7: with 0 or 1 records the list carries no tag; with 2 or more a record
\* is tagged fastest exactly when its deltaMs is the minimum of the ledger.
C7_FastestIffMinimum ==
  /\ Len(laps) <= 1 => \A j \in DOMAIN lapsList : lapsList[j].badge = ""
  /\ Len(laps) >= 2 =>
       \A i \in 1..Len(laps) :
         Tagged(i, "Fastest") <=>
           \A k \in 1..Len(laps) : laps[i].deltaMs <= laps[k].deltaMs

\* Three laps of three different deltas: one fastest, one slowest, one bare.
C7_Witness ==
  /\ Len(laps) = 3
  /\ \E i, j, k \in 1..3 :
       /\ Tagged(i, "Fastest")
       /\ Tagged(j, "Slowest")
       /\ Tagged(k, "")

\* C8: lap() changes nothing when start() has not taken effect since the last
\* reset, whatever entry point called it.
C8_LapBeforeStartIsNoOp ==
  [][(lastOp'.op = "lap" /\ ~started) => UNCHANGED <<engineVars, domVars>>]_vars

\* The text formatTime must give by the field formulas of the claim
Pad2(n) == IF n < 10 THEN "0" \o ToString(n) ELSE ToString(n)

ExpectedTime(ms) ==
  Pad2(ms \div 3600000) \o ":" \o Pad2((ms \div 60000) % 60) \o ":" \o
  Pad2((ms \div 1000) % 60) \o "." \o Pad2((ms \div 10) % 100)

\* C9: formatTime(ms) is hours:minutes:seconds.centiseconds, each the floor
\* quotient of the claim, each at least two digits, hours without a modulus.
C9_FormatFields ==
  fmtRes # "" =>
    /\ fmtRes = ExpectedTime(fmtArg)
    /\ fmtArg = 0 => fmtRes = "00:00:00.00"
    /\ fmtArg = 61234 => fmtRes = "00:01:01.23"
    /\ fmtArg = 3600000 => fmtRes = "01:00:00.00"
    /\ fmtArg = 360000000 => fmtRes = "100:00:00.00"

\* A hundred hours formatted with a three-digit hours field.
C9_Witness ==
  /\ fmtArg = 360000000
  /\ fmtRes = "100:00:00.00"

\* C10: pause() on a clock that is not running leaves elapsedBeforeStart,
\* running, the ledger and the pending animation frames as they were.
C10_PauseIdempotent ==
  [][(lastOp'.op = "pause" /\ ~running) =>
       UNCHANGED <<elapsedBeforeStart, running, laps, rafId, rafQueue>>]_vars

\* A pause() called after the clock advanced while already paused: more time
\* has passed since the last start than was ever committed.
C10_Witness ==
  /\ lastOp.op = "pause"
  /\ ~running
  /\ elapsedBeforeStart > 0
  /\ now - startTime > elapsedBeforeStart

\* C11: the clear-laps button and the export button are disabled exactly
\* when the ledger is empty, in every reachable state.
C11_ClearExportDisabledIffEmpty ==
  /\ clearLapsBtnDisabled <=> Len(laps) = 0
  /\ exportLapsBtnDisabled <=> Len(laps) = 0

\* The last lap was deleted after the clock had been started: both buttons
\* are disabled again.
C11_Witness ==
  /\ lastOp.op = "deleteLap"
  /\ started
  /\ deletedSinceReset
  /\ Len(laps) = 0
  /\ clearLapsBtnDisabled
  /\ exportLapsBtnDisabled

\* C12: the lap button and the reset button are disabled exactly when start()
\* has not taken effect since the last reset, and an L key press in such a
\* state records no lap.
C12_LapResetDisabledIffNeverStarted ==
  /\ [](/\ lapBtnDisabled <=> ~started
        /\ resetBtnDisabled <=> ~started)
  /\ [][(lastOp'.arg = KeyCode("l") /\ lastOp'.op \in {"lap", "handleKey"}
         /\ ~started) => laps' = laps]_vars

\* An L key press after a reset that followed a start: nothing recorded.
C12_Witness ==
  /\ lastOp = Op("handleKey", KeyCode("l"))
  /\ ~started
  /\ lapBtnDisabled
  /\ resetBtnDisabled
  /\ startTime > 0
  /\ Len(laps) = 0

\* Row j of the list shows record r of the ledger
Shows(j, r) ==
  /\ lapsList[j].kind = "lap"
  /\ lapsList[j].idx = r.idx
  /\ lapsList[j].time = formatTime(r.timeMs)
  /\ lapsList[j].diff = formatTime(r.deltaMs)
  /\ lapsList[j].deleteIndex = r.idx

\* C13: the list is the ledger newest first, each row's delete button carries
\* the idx of the record it shows, and a click on it removes that record and
\* no other.
C13_ListIsLedgerNewestFirst ==
  /\ [](IF Len(laps) = 0 THEN lapsList = <<PlaceholderRow>>
        ELSE /\ Len(lapsList) = Len(laps)
             /\ \A j \in 1..Len(lapsList) : Shows(j, laps[Len(laps) - j + 1]))
  /\ [][\A j \in 1..Len(lapsList) :
          (lastOp' = Op("deleteLap", lapsList[j].deleteIndex)
           /\ lapsList[j].kind = "lap") =>
            LET pos == Len(laps) - j + 1
            IN /\ Len(laps') = Len(laps) - 1
               /\ \A i \in 1..Len(laps') :
                    LET old == laps[IF i < pos THEN i ELSE i + 1]
                    IN /\ laps'[i].timeMs = old.timeMs
                       /\ laps'[i].deltaMs = old.deltaMs
                       /\ laps'[i].iso = old.iso]_vars

\* Three laps at three different times on the list, the newest on top and
\* shown with another time text than the oldest.
C13_Witness ==
  /\ lastOp.op = "lap"
  /\ Len(laps) = 3
  /\ Len(lapsList) = 3
  /\ lapsList[1].idx = 3
  /\ lapsList[3].idx = 1
  /\ lapsList[1].time # lapsList[3].time
  /\ laps[1].timeMs < laps[2].timeMs
  /\ laps[2].timeMs < laps[3].timeMs

\* C14: exportLaps() hands the browser nothing when the ledger is empty and
\* otherwise a file of the header and one row per record, in ledger order,
\* with the record's idx, timeMs and deltaMs; it never changes running,
\* elapsedBeforeStart, startTime or the ledger.
C14_ExportFrame ==
  [][lastOp'.op = "exportLaps" =>
       /\ UNCHANGED <<running, elapsedBeforeStart, startTime, laps>>
       /\ IF Len(laps) = 0 THEN download' = NoDownload
          ELSE /\ Len(download'.rows) = Len(laps) + 1
               /\ \A i \in 1..Len(laps) :
                    LET row == download'.rows[i + 1]
                    IN /\ row[1] = "\"" \o ToString(laps[i].idx) \o "\""
                       /\ row[2] = "\"" \o ToString(laps[i].timeMs) \o "\""
                       /\ row[4] = "\"" \o ToString(laps[i].deltaMs) \o "\""]_vars

\* An export of two laps of different times while the clock runs.
C14_Witness ==
  /\ lastOp.op = "exportLaps"
  /\ running
  /\ Len(laps) = 2
  /\ laps[1].timeMs < laps[2].timeMs
  /\ Len(download.rows) = 3

\* Every record's deltaMs is the distance to the record before it (to 0 for
\* the first record)
DeltasAdjacent ==
  \A i \in 1..Len(laps) :
    laps[i].deltaMs = laps[i].timeMs - (IF i = 1 THEN 0 ELSE laps[i - 1].timeMs)

\* C15 as stated: in every reachable state each record's deltaMs is its
\* timeMs minus the timeMs of the record before it (minus 0 for the first).
C15_DeltasAdjacentAlways == DeltasAdjacent

\* C15 amended: the same, in every reachable state in which no lap other than
\* the newest has been deleted since the ledger was last empty.
C15_DeltasAdjacentUnlessInnerDelete == ~innerDeleted => DeltasAdjacent

\* A lap recorded after the newest lap was deleted.
C15_Witness ==
  /\ lastOp.op = "lap"
  /\ deletedSinceReset
  /\ ~innerDeleted
  /\ Len(laps) >= 2
  /\ laps[1].timeMs > 0
  /\ laps[Len(laps)].deltaMs > 0

\* C16: every record of the ledger has deltaMs >= 0.
C16_DeltasNonNegative ==
  \A i \in 1..Len(laps) : laps[i].deltaMs >= 0

\* A lap recorded on a paused clock after a deletion, later than the lap
\* before it.
C16_Witness ==
  /\ lastOp.op = "lap"
  /\ deletedSinceReset
  /\ ~running
  /\ Len(laps) >= 2
  /\ laps[Len(laps)].deltaMs > 0

\* C17: at most one animation-frame request is pending; exactly one, the one
\* rafId names, while the clock runs and none while it does not; update()
\* never runs on a stopped clock.
C17_OneRefreshWhileRunning ==
  /\ Cardinality(rafQueue) <= 1
  /\ running => rafQueue = {rafId}
  /\ ~running => rafQueue = {}
  /\ lastOp.op = "update" => running

\* A refresh in the second running interval.
C17_Witness ==
  /\ lastOp.op = "update"
  /\ running
  /\ elapsedBeforeStart > 0
  /\ Cardinality(rafQueue) = 1

\* C18: update() leaves running, startTime, elapsedBeforeStart and the ledger
\* as they were.
C18_UpdateFrame ==
  [][lastOp'.op = "update" =>
       UNCHANGED <<running, startTime, elapsedBeforeStart, laps>>]_vars

\* A refresh that changed the display, with a lap in the ledger.
C18_Witness ==
  /\ lastOp.op = "update"
  /\ Len(laps) >= 1
  /\ timerText # formatTime(0)
  /\ elapsedBeforeStart > 0

\* C19: whenever the clock is not running the display shows formatTime of
\* the committed elapsed time.
C19_DisplayIsCommittedTime ==
  ~running => timerText = formatTime(elapsedBeforeStart)

\* C20: the timeMs of the ledger do not decrease in ledger order and none
\* exceeds the current getElapsedMs().
C20_TimesOrderedAndBounded ==
  /\ \A i \in 1..Len(laps) : laps[i].timeMs <= getElapsedMs(S, now)
  /\ \A i \in 2..Len(laps) : laps[i - 1].timeMs <= laps[i].timeMs

\* Three laps at three different times, the clock running past the last.
C20_Witness ==
  /\ Len(laps) = 3
  /\ running
  /\ laps[1].timeMs < laps[2].timeMs
  /\ laps[2].timeMs < laps[3].timeMs
  /\ laps[3].timeMs < getElapsedMs(S, now)

====
